---- MODULE Spec2Model ----
(***************************************************************************)
(* Model of the meta_plugin_api crate (src/src/lib.rs): the PluginError    *)
(* taxonomy and its Display rendering, the HelpMode enum, the Plugin trait *)
(* with its default get_help_output, and the two Plugin implementations    *)
(* the crate contains (MockSuccessPlugin, MockFailPlugin), driven the way  *)
(* the crate's tests drive them: an instance is created, possibly boxed as *)
(* Box<dyn Plugin>, and its methods are called in any order.               *)
(*                                                                         *)
(* Strings are TLA+ strings; format!/Display is string concatenation.      *)
(* An anyhow::Error is a record [kind, detail]: kind "Adhoc" for an error  *)
(* built by anyhow!(msg), which downcasts to no PluginError, and the       *)
(* PluginError variant name for an error built from a PluginError.         *)
(***************************************************************************)
EXTENDS Integers, Sequences, FiniteSets, TLC

VARIABLES
    handles,       \* handles[h]: concrete type behind the h-th plugin instance
    namesSeen,     \* namesSeen[h]: the values name() returned on handle h,
                   \* those before and those after the first execute() on h
    commandsSeen,  \* commandsSeen[h]: every list commands() returned on handle h
    executed,      \* executed[h]: execute() was called on handle h
    last,          \* the most recent method call and what it returned
    rendered       \* the most recent PluginError renderings, newest last

vars == <<handles, namesSeen, commandsSeen, executed, last, rendered>>

----------------------------------------------------------------------------
(* Bounds of the model. *)

MaxPlugins == 2    \* plugin instances alive at once
MaxArgs == 1       \* length of an args slice
MaxRendered == 2   \* renderings kept in `rendered`

(* Inputs. *)
Commands == {"success_cmd", "fail_cmd", "unknown_cmd"}
ArgWords == {"--help"}
Details == {"", "x", "y", "dlopen failed", "unknown_cmd", "Command not found: y"}

RECURSIVE SeqsUpTo(_, _)
SeqsUpTo(S, n) ==
    IF n = 0 THEN {<<>>}
    ELSE LET shorter == SeqsUpTo(S, n - 1)
         IN  shorter \cup {Append(s, x) : s \in {t \in shorter : Len(t) = n - 1}, x \in S}

ArgLists == SeqsUpTo(ArgWords, MaxArgs)

(* str::contains *)
Contains(s, t) ==
    \E i \in 1..(Len(s) - Len(t) + 1) : SubSeq(s, i, i + Len(t) - 1) = t

----------------------------------------------------------------------------
(* PluginError and its Display (thiserror #[error("...")] templates). *)

LoadError(d) == [kind |-> "LoadError", detail |-> d]
CommandNotFound(d) == [kind |-> "CommandNotFound", detail |-> d]

(* anyhow!(msg): an ad-hoc error carrying only a message *)
anyhow(msg) == [kind |-> "Adhoc", detail |-> msg]

Display_swapped(e) ==
    CASE e.kind = "LoadError" -> "Command not found: " \o e.detail
      [] e.kind = "CommandNotFound" -> "Failed to load plugin: " \o e.detail
      [] OTHER -> e.detail

Display(e) ==
    CASE e.kind = "LoadError" -> "Failed to load plugin: " \o e.detail
      [] e.kind = "CommandNotFound" -> "Command not found: " \o e.detail
      [] OTHER -> e.detail

(* anyhow::Result<()> *)
Ok == [ok |-> TRUE]
Err(e) == [ok |-> FALSE, err |-> e]

----------------------------------------------------------------------------
(* HelpMode and Option<(HelpMode, String)> *)

HelpMode == {"Override", "Prepend", "None"}
OptionNone == [some |-> FALSE]
Some(v) == [some |-> TRUE, value |-> v]

----------------------------------------------------------------------------
(* The Plugin trait's default method and the two implementations.  `self`  *)
(* is the handle the method is called on; both types are unit structs.     *)

Plugin_get_help_output_echo(self, args) ==
    IF args = <<>> THEN OptionNone ELSE Some(<<"Override", args[1]>>)

Plugin_get_help_output(self, args) == OptionNone

MockSuccessPlugin_name(self) == "mock_success"
MockSuccessPlugin_commands(self) == <<"success_cmd">>
MockSuccessPlugin_execute(self, command, args) ==
    IF command = "success_cmd" THEN Ok ELSE Err(anyhow("Command not found"))

MockFailPlugin_name_unstable(self) ==
    IF executed[self] THEN "" ELSE "mock_fail"

MockFailPlugin_name(self) == "mock_fail"
MockFailPlugin_commands(self) == <<"fail_cmd">>

MockFailPlugin_execute_notfound(self, command, args) ==
    Err(CommandNotFound(command))

MockFailPlugin_execute_othermsg(self, command, args) ==
    Err(anyhow("Command not found"))

MockFailPlugin_execute(self, command, args) ==
    Err(anyhow("Simulated plugin failure"))

PluginTypes == {"MockSuccessPlugin", "MockFailPlugin"}

(* Dynamic dispatch through the trait object's vtable. *)
name(h) ==
    IF handles[h] = "MockSuccessPlugin" THEN MockSuccessPlugin_name(h)
    ELSE MockFailPlugin_name(h)

commands(h) ==
    IF handles[h] = "MockSuccessPlugin" THEN MockSuccessPlugin_commands(h)
    ELSE MockFailPlugin_commands(h)

execute(h, command, args) ==
    IF handles[h] = "MockSuccessPlugin" THEN MockSuccessPlugin_execute(h, command, args)
    ELSE MockFailPlugin_execute(h, command, args)

get_help_output(h, args) == Plugin_get_help_output(h, args)

Range(s) == {s[i] : i \in 1..Len(s)}

----------------------------------------------------------------------------
(* Initial state and the operations. *)

NoCall == [op |-> "none"]

Init ==
    /\ handles = <<>>
    /\ namesSeen = <<>>
    /\ commandsSeen = <<>>
    /\ executed = <<>>
    /\ last = NoCall
    /\ rendered = <<>>

(* Box::new(T) / let plugin = T: a new instance of a unit struct *)
BoxNew ==
    \E t \in PluginTypes :
        /\ Len(handles) < MaxPlugins
        /\ handles' = Append(handles, t)
        /\ namesSeen' = Append(namesSeen, [before |-> {}, after |-> {}])
        /\ commandsSeen' = Append(commandsSeen, {})
        /\ executed' = Append(executed, FALSE)
        /\ UNCHANGED <<last, rendered>>

CallName ==
    \E h \in 1..Len(handles) :
        LET out == name(h) IN
        /\ last' = [op |-> "name", h |-> h, out |-> out]
        /\ namesSeen' = IF executed[h]
                         THEN [namesSeen EXCEPT ![h].after = @ \cup {out}]
                         ELSE [namesSeen EXCEPT ![h].before = @ \cup {out}]
        /\ UNCHANGED <<handles, commandsSeen, executed, rendered>>

CallCommands ==
    \E h \in 1..Len(handles) :
        LET out == commands(h) IN
        /\ last' = [op |-> "commands", h |-> h, out |-> out]
        /\ commandsSeen' = [commandsSeen EXCEPT ![h] = @ \cup {out}]
        /\ UNCHANGED <<handles, namesSeen, executed, rendered>>

CallExecute ==
    \E h \in 1..Len(handles), command \in Commands, args \in ArgLists :
        /\ last' = [op |-> "execute", h |-> h, command |-> command, args |-> args,
                    out |-> execute(h, command, args)]
        /\ executed' = [executed EXCEPT ![h] = TRUE]
        /\ UNCHANGED <<handles, namesSeen, commandsSeen, rendered>>

CallGetHelpOutput ==
    \E h \in 1..Len(handles), args \in ArgLists :
        /\ last' = [op |-> "get_help_output", h |-> h, args |-> args,
                    out |-> get_help_output(h, args)]
        /\ UNCHANGED <<handles, namesSeen, commandsSeen, executed, rendered>>

(* format!("{}", err) of a freshly built PluginError *)
FormatError ==
    \E d \in Details : \E e \in {LoadError(d), CommandNotFound(d)} :
        LET entry == [err |-> e, text |-> Display(e)]
            log == Append(rendered, entry)
        IN  /\ rendered' = IF Len(log) > MaxRendered THEN Tail(log) ELSE log
            /\ UNCHANGED <<handles, namesSeen, commandsSeen, executed, last>>

Next ==
    \/ BoxNew
    \/ CallName
    \/ CallCommands
    \/ CallExecute
    \/ CallGetHelpOutput

Spec == Init /\ [][Next]_vars

NextFmt == FormatError

SpecFmt == Init /\ [][NextFmt]_vars

----------------------------------------------------------------------------
(* Properties. *)

Advertised(h, command) == command \in Range(commands(h))

(* C1: execute of a command the plugin does not advertise fails with the   *)
(* CommandNotFound kind of PluginError, carrying the command's name.       *)
C1_UnknownCommandIsCommandNotFound ==
    (last.op = "execute" /\ ~Advertised(last.h, last.command)) =>
        (~last.out.ok /\ last.out.err = CommandNotFound(last.command))

(* C2: execute of a command the plugin advertises never fails with the     *)
(* CommandNotFound kind: it succeeds, or fails with an error that is no    *)
(* PluginError.                                                            *)
C2_AdvertisedNeverCommandNotFound ==
    (last.op = "execute" /\ Advertised(last.h, last.command)) =>
        (last.out.ok \/ last.out.err.kind = "Adhoc")

C2_Witness ==
    /\ last.op = "execute"
    /\ Advertised(last.h, last.command)
    /\ last.args # <<>>
    /\ last.out.ok

(* C3: LoadError(d) renders "Failed to load plugin: " followed by d,       *)
(* CommandNotFound(d) renders "Command not found: " followed by d, and no  *)
(* rendering of one kind equals a rendering of the other.                  *)
C3_RenderingTemplates ==
    /\ \A i \in 1..Len(rendered) :
          /\ rendered[i].err.kind = "LoadError" =>
                rendered[i].text = "Failed to load plugin: " \o rendered[i].err.detail
          /\ rendered[i].err.kind = "CommandNotFound" =>
                rendered[i].text = "Command not found: " \o rendered[i].err.detail
    /\ \A i, j \in 1..Len(rendered) :
          rendered[i].err.kind # rendered[j].err.kind =>
              rendered[i].text # rendered[j].text

C3_Witness ==
    /\ Len(rendered) >= 2
    /\ rendered[1].err = LoadError("Command not found: y")
    /\ rendered[2].err = CommandNotFound("y")
    /\ rendered[1].text = "Failed to load plugin: Command not found: y"

(* C4: a failure of an advertised command is an error outside PluginError  *)
(* whose rendering is the plugin's own message; MockFailPlugin's fail_cmd  *)
(* fails with a message containing "Simulated plugin failure".             *)
C4_DomainErrorKeepsMessage ==
    /\ (last.op = "execute" /\ Advertised(last.h, last.command) /\ ~last.out.ok) =>
          /\ last.out.err.kind \notin {"LoadError", "CommandNotFound"}
          /\ Display(last.out.err) = last.out.err.detail
    /\ (last.op = "execute" /\ handles[last.h] = "MockFailPlugin"
           /\ last.command = "fail_cmd") =>
          /\ ~last.out.ok
          /\ Contains(Display(last.out.err), "Simulated plugin failure")

C4_Witness ==
    /\ last.op = "execute"
    /\ handles[last.h] = "MockFailPlugin"
    /\ last.command = "fail_cmd"
    /\ ~last.out.ok

(* C5: get_help_output of a plugin that keeps the trait's default returns  *)
(* None for every args, whatever was called on the plugin before.          *)
C5_DefaultHelpIsNone ==
    last.op = "get_help_output" => ~last.out.some

C5_Witness ==
    /\ last.op = "get_help_output"
    /\ last.args # <<>>
    /\ executed[last.h]
    /\ namesSeen[last.h].after # {}
    /\ commandsSeen[last.h] # {}

(* C7: on every instance name() is non-empty and returns one value, and    *)
(* commands() returns one list, across all calls made on the instance,     *)
(* before and after execute calls.                                         *)
C7_NameAndCommandsStable ==
    \A h \in 1..Len(handles) :
        LET names == namesSeen[h].before \cup namesSeen[h].after IN
        /\ Cardinality(names) <= 1
        /\ "" \notin names
        /\ Cardinality(commandsSeen[h]) <= 1

C7_Witness ==
    \E h \in 1..Len(handles) :
        /\ handles[h] = "MockFailPlugin"
        /\ namesSeen[h].before # {}
        /\ namesSeen[h].after # {}
        /\ commandsSeen[h] # {}
        /\ last.op = "get_help_output"
        /\ last.h = h

====
